---- MODULE Spec2Model ----
(***************************************************************************)
(* Model of python/meshtastic-client.py: the MeshtasticClient receive      *)
(* handler (_on_receive, _id_to_name), the client life cycle and main().  *)
(*                                                                         *)
(* Python dicts are functions whose DOMAIN is the set of keys present, so  *)
(* `"decoded" in packet` is  "decoded" \in DOMAIN packet  and a subscript  *)
(* on a missing key is a KeyError.  A str is a sequence of one-character   *)
(* strings, a bytes object is a sequence of integers 0..255, and decoded   *)
(* text is a sequence of Unicode code points.                              *)
(***************************************************************************)
EXTENDS Integers, Sequences, FiniteSets, TLC

VARIABLES
    pc,                 \* position of main()
    meshtastic_client,  \* main's local: "None" or "client"
    mattermost_client,  \* main's local: "None" or "client"
    interface,          \* MeshtasticClient.interface: "None", "open", "closed"
    driver,             \* MattermostClient.driver: "None", "open", "closed"
    subscribed,         \* _on_receive is subscribed to "meshtastic.receive"
    raised,             \* exception propagating in main: "none" or its type
    exit_status,        \* process exit status once pc = "exited"
    linkUp,             \* the TCP link to the radio is up
    nodes,              \* interface.nodes, the node directory
    pending,            \* packets published by the interface, not yet handled
    last,               \* <<>> or <<r>>: record of the last _on_receive call
    closeReturned,      \* MeshtasticClient.close() has returned
    log,                \* kinds of log lines written so far
    closeCalls,         \* the clients whose close() main has called
    arrivals,           \* how many numbered packets the interface published
    dispatched,         \* the numbers of the packets passed to the callback
    lookup,             \* a call of _id_to_name, a loop step at a time
    channel             \* a call of delete_messages_in_channel (channels.py)

vars == <<pc, meshtastic_client, mattermost_client, interface, driver,
          subscribed, raised, exit_status, linkUp, nodes, pending, last,
          closeReturned, log, closeCalls, arrivals, dispatched, lookup,
          channel>>

----------------------------------------------------------------------------
(* Bounds of the model.                                                    *)

\* longest node long name, in characters
MaxNameLen == 3
\* longest packet payload, in bytes
MaxPayloadLen == 2
\* most packets published and not yet handled
MaxPending == 1
\* most packets the interface publishes in the ordering specification
MaxArrivals == 3
\* most packets published and not yet handled in the ordering specification
MaxBacklog == 2
\* most posts in the channel that delete_messages_in_channel clears
MaxPosts == 202
\* most fresh posts at the head of that channel, unless a whole page or
\* the whole channel is fresh
MaxFresh == 2

----------------------------------------------------------------------------
(* Strings: split() and upper().                                           *)

Chars == {"a", " "}

IsSpace(c) == c \in {" ", "\t", "\n"}

UpperChar(c) ==
    CASE c = "a" -> "A"
      [] c = "b" -> "B"
      [] c = "e" -> "E"
      [] OTHER -> c

\* str.upper()
Upper(s) == [i \in 1..Len(s) |-> UpperChar(s[i])]

RECURSIVE SplitFrom(_, _, _, _)
\* The scan of str.split() with no separator: runs of whitespace separate
\* the words, and no empty word is produced.
SplitFrom(s, i, cur, acc) ==
    IF i > Len(s)
    THEN IF cur = <<>> THEN acc ELSE Append(acc, cur)
    ELSE IF IsSpace(s[i])
         THEN SplitFrom(s, i + 1, <<>>,
                        IF cur = <<>> THEN acc ELSE Append(acc, cur))
         ELSE SplitFrom(s, i + 1, Append(cur, s[i]), acc)

\* str.split()
Split(s) == SplitFrom(s, 1, <<>>, <<>>)

----------------------------------------------------------------------------
(* bytes.decode("utf-8") and its inverse.                                  *)

IsCont(b) == b >= 128 /\ b <= 191

RECURSIVE Utf8From(_, _, _)
\* Strict UTF-8 decoding from position i; acc holds the code points so far.
\* Overlong forms, surrogates and values above U+10FFFF are errors.
Utf8From(bs, i, acc) ==
    IF i > Len(bs) THEN [ok |-> TRUE, text |-> acc]
    ELSE LET b == bs[i]
             Bad == [ok |-> FALSE, text |-> <<>>]
             Has(n) == i + n <= Len(bs)
                       /\ \A k \in 1..n : IsCont(bs[i + k])
         IN  IF b < 128 THEN Utf8From(bs, i + 1, Append(acc, b))
             ELSE IF b >= 194 /\ b <= 223
             THEN IF Has(1)
                  THEN Utf8From(bs, i + 2,
                           Append(acc, (b - 192) * 64 + (bs[i + 1] - 128)))
                  ELSE Bad
             ELSE IF b >= 224 /\ b <= 239
             THEN IF Has(2)
                  THEN LET cp == (b - 224) * 4096 + (bs[i + 1] - 128) * 64
                                 + (bs[i + 2] - 128)
                       IN  IF cp < 2048 \/ (cp >= 55296 /\ cp <= 57343)
                           THEN Bad
                           ELSE Utf8From(bs, i + 3, Append(acc, cp))
                  ELSE Bad
             ELSE IF b >= 240 /\ b <= 244
             THEN IF Has(3)
                  THEN LET cp == (b - 240) * 262144 + (bs[i + 1] - 128) * 4096
                                 + (bs[i + 2] - 128) * 64 + (bs[i + 3] - 128)
                       IN  IF cp < 65536 \/ cp > 1114111
                           THEN Bad
                           ELSE Utf8From(bs, i + 4, Append(acc, cp))
                  ELSE Bad
             ELSE Bad

\* payload.decode("utf-8"): ok is FALSE for UnicodeDecodeError
Utf8Decode(bs) == Utf8From(bs, 1, <<>>)

----------------------------------------------------------------------------
(* The inputs: packets as the mesh interface publishes them, and the node  *)
(* directory interface.nodes.                                              *)

NodeIds == {"!abc123", "!def456"}

ShortName == <<"S">>

\* a long name of two different words, beside the generated ones
ExampleNames == {<<"a", "b", " ", "e">>}

LongNames == UNION {[1..n -> Chars] : n \in 0..MaxNameLen} \cup ExampleNames

\* A node entry's "user" dict; either name may be missing.
Users ==
    {[longName |-> ln, shortName |-> ShortName] : ln \in LongNames}
    \cup {[shortName |-> ShortName], [longName |-> <<"a">>]}

\* A node entry: with a user record, or (a node heard but not yet
\* identified) without one.
NodeInfos == {[user |-> u] : u \in Users} \cup {[snr |-> "7.0"]}

Directories == UNION {[S -> NodeInfos] : S \in SUBSET NodeIds}

PayloadBytes == {72, 195, 169}

Payloads == UNION {[1..n -> PayloadBytes] : n \in 0..MaxPayloadLen}

TextDecoded ==
    {[portnum |-> "TEXT_MESSAGE_APP", payload |-> pl] : pl \in Payloads}
    \cup {[portnum |-> "TEXT_MESSAGE_APP"]}

NonTextDecoded ==
    {[portnum |-> "POSITION_APP", payload |-> <<72>>], [payload |-> <<72>>]}

Packets ==
    {[decoded |-> d, fromId |-> id] :
        d \in TextDecoded \cup NonTextDecoded, id \in NodeIds}
    \cup {[decoded |-> d] : d \in TextDecoded \cup NonTextDecoded}
    \cup {[fromId |-> id, encrypted |-> <<72>>] : id \in NodeIds}

\* What a call of the relay callback can do: return, raise, or raise the
\* one exception type _on_receive catches.
CallbackOutcomes == {"returns", "raises", "raises_UnicodeDecodeError"}

----------------------------------------------------------------------------
(* MeshtasticClient._id_to_name and MeshtasticClient._on_receive.          *)

RECURSIVE IdToNameLoop(_, _, _)
\* The for loop over interface.nodes.items(); todo is what is left of it.
IdToNameLoop(dir, id, todo) ==
    IF todo = {}
    THEN [exc |-> "none", short_name |-> <<>>, long_name |-> <<>>]
    ELSE LET node_id == CHOOSE k \in todo : TRUE
             node_info == dir[node_id]
         IN  IF id = node_id
             THEN IF "user" \notin DOMAIN node_info
                     \/ "longName" \notin DOMAIN node_info.user
                     \/ "shortName" \notin DOMAIN node_info.user
                  THEN [exc |-> "KeyError",
                        short_name |-> <<>>, long_name |-> <<>>]
                  ELSE [exc |-> "none",
                        short_name |-> node_info.user.shortName,
                        long_name |-> node_info.user.longName]
             ELSE IdToNameLoop(dir, id, todo \ {node_id})

IdToName(dir, id) == IdToNameLoop(dir, id, DOMAIN dir)

\* IsTextPacket without the test of the port tag
IsTextPacketAnyPort(packet) == "decoded" \in DOMAIN packet

\* the condition of the if statement of _on_receive
IsTextPacket(packet) ==
    /\ "decoded" \in DOMAIN packet
    /\ "portnum" \in DOMAIN packet.decoded
    /\ packet.decoded.portnum = "TEXT_MESSAGE_APP"

\* packet["decoded"]["payload"].decode("utf-8")
DecodeText(packet) ==
    IF "payload" \notin DOMAIN packet.decoded
    THEN [exc |-> "KeyError", text |-> <<>>]
    ELSE LET d == Utf8Decode(packet.decoded.payload)
         IN  IF d.ok THEN [exc |-> "none", text |-> d.text]
             ELSE [exc |-> "UnicodeDecodeError", text |-> <<>>]

\* Callsign taking the last word instead of the first
CallsignLastWord(long_name) ==
    LET words == Split(long_name)
    IN  IF words = <<>>
        THEN [exc |-> "IndexError", callsign |-> <<>>]
        ELSE [exc |-> "none", callsign |-> Upper(words[Len(words)])]

\* long_name.split()[0].upper()
Callsign(long_name) ==
    LET words == Split(long_name)
    IN  IF words = <<>>
        THEN [exc |-> "IndexError", callsign |-> <<>>]
        ELSE [exc |-> "none", callsign |-> Upper(words[1])]

\* Except with no handler at all: every exception leaves the handler
ExceptNothing(exc, calls, logs) ==
    [outcome |-> exc, calls |-> calls, logs |-> logs]

\* How the try statement of _on_receive ends when exception exc is raised
\* in its body: only UnicodeDecodeError has a handler.
Except(exc, calls, logs) ==
    IF exc = "UnicodeDecodeError"
    THEN [outcome |-> "returned", calls |-> calls,
          logs |-> logs \cup {"non_utf8"}]
    ELSE [outcome |-> exc, calls |-> calls, logs |-> logs]

\* self.callback(callsign, text_message, self.logger), last in the try body
Dispatch(callsign, text, cb) ==
    LET calls == <<[callsign |-> callsign, text |-> text]>>
    IN  CASE cb = "returns" ->
               [outcome |-> "returned", calls |-> calls,
                logs |-> {"received"}]
          [] cb = "raises_UnicodeDecodeError" ->
               Except("UnicodeDecodeError", calls, {"received"})
          [] OTHER -> Except("CallbackError", calls, {"received"})

\* One call _on_receive(packet, interface) with interface.nodes = dir and a
\* callback that behaves as cb: how the call ends ("returned" or the type of
\* the exception that leaves it), the callback calls made, the lines logged.
OnReceive(packet, dir, cb) ==
    IF ~IsTextPacket(packet)
    THEN [outcome |-> "returned", calls |-> <<>>, logs |-> {}]
    ELSE LET t == DecodeText(packet)
         IN  IF t.exc # "none" THEN Except(t.exc, <<>>, {})
             ELSE IF "fromId" \notin DOMAIN packet
             THEN Except("KeyError", <<>>, {})
             ELSE LET n == IdToName(dir, packet.fromId)
                  IN  IF n.exc # "none" THEN Except(n.exc, <<>>, {})
                      ELSE LET c == Callsign(n.long_name)
                           IN  IF c.exc # "none"
                               THEN Except(c.exc, <<>>, {})
                               ELSE Dispatch(c.callsign, t.text, cb)

----------------------------------------------------------------------------
(* The process: main(), the two clients, and the mesh interface's side of  *)
(* the subscription.                                                       *)

Init ==
    /\ pc = "load_config"
    /\ meshtastic_client = "None"
    /\ mattermost_client = "None"
    /\ interface = "None"
    /\ driver = "None"
    /\ subscribed = FALSE
    /\ raised = "none"
    /\ exit_status = 0
    /\ linkUp = FALSE
    /\ nodes = <<>>
    /\ pending = <<>>
    /\ last = <<>>
    /\ closeReturned = FALSE
    /\ log = {}
    /\ closeCalls = {}
    /\ arrivals = 0
    /\ dispatched = <<>>
    /\ lookup = [state |-> "idle"]
    /\ channel = [state |-> "idle"]

\* main: the config file is read and the logger built
LoadConfig ==
    /\ pc = "load_config"
    /\ pc' = "construct_mesh"
    /\ log' = log \cup {"logging_active"}
    /\ UNCHANGED <<meshtastic_client, mattermost_client, interface, driver,
                   subscribed, raised, exit_status, linkUp, nodes, pending,
                   last, closeReturned>>
    /\ UNCHANGED <<closeCalls, arrivals, dispatched, lookup, channel>>

\* main: reading the config file fails; main prints and returns
LoadConfigFails ==
    /\ pc = "load_config"
    /\ pc' = "exited"
    /\ exit_status' = 0
    /\ UNCHANGED <<meshtastic_client, mattermost_client, interface, driver,
                   subscribed, raised, linkUp, nodes, pending, last,
                   closeReturned, log>>
    /\ UNCHANGED <<closeCalls, arrivals, dispatched, lookup, channel>>

\* MeshtasticClient.__init__: TCPInterface connects, the handler is
\* subscribed, and main binds the client
MeshConnect ==
    /\ pc = "construct_mesh"
    /\ interface' = "open"
    /\ linkUp' = TRUE
    /\ subscribed' = TRUE
    /\ log' = log \cup {"mesh_connected"}
    /\ meshtastic_client' = "client"
    /\ pc' = "construct_mattermost"
    /\ UNCHANGED <<mattermost_client, driver, raised, exit_status, nodes,
                   pending, last, closeReturned>>
    /\ UNCHANGED <<closeCalls, arrivals, dispatched, lookup, channel>>

\* MeshConnectFails with the error logged and swallowed: the constructor
\* returns a client that has no interface
MeshConnectFailsSwallowed ==
    /\ pc = "construct_mesh"
    /\ log' = log \cup {"mesh_connect_error"}
    /\ meshtastic_client' = "client"
    /\ pc' = "construct_mattermost"
    /\ UNCHANGED <<mattermost_client, interface, driver, subscribed, raised,
                   exit_status, linkUp, nodes, pending, last, closeReturned>>
    /\ UNCHANGED <<closeCalls, arrivals, dispatched, lookup, channel>>

\* MeshtasticClient.__init__: TCPInterface raises; the error is logged and
\* raised again, so main's assignment never happens
MeshConnectFails ==
    /\ pc = "construct_mesh"
    /\ log' = log \cup {"mesh_connect_error"}
    /\ raised' = "Exception"
    /\ pc' = "finally_mesh"
    /\ UNCHANGED <<meshtastic_client, mattermost_client, interface, driver,
                   subscribed, exit_status, linkUp, nodes, pending, last,
                   closeReturned>>
    /\ UNCHANGED <<closeCalls, arrivals, dispatched, lookup, channel>>

\* MattermostClient.__init__: the Driver is built and main binds the client
MattermostInit ==
    /\ pc = "construct_mattermost"
    /\ driver' = "open"
    /\ mattermost_client' = "client"
    /\ pc' = "run_loop"
    /\ UNCHANGED <<meshtastic_client, interface, subscribed, raised,
                   exit_status, linkUp, nodes, pending, last, closeReturned,
                   log>>
    /\ UNCHANGED <<closeCalls, arrivals, dispatched, lookup, channel>>

\* MattermostClient.__init__: Driver raises; logged and raised again
MattermostInitFails ==
    /\ pc = "construct_mattermost"
    /\ log' = log \cup {"mattermost_connect_error"}
    /\ raised' = "Exception"
    /\ pc' = "finally_mesh"
    /\ UNCHANGED <<meshtastic_client, mattermost_client, interface, driver,
                   subscribed, exit_status, linkUp, nodes, pending, last,
                   closeReturned>>
    /\ UNCHANGED <<closeCalls, arrivals, dispatched, lookup, channel>>

\* main: an interrupt signal arrives inside the try statement; the except
\* clause logs it and the exception is handled
KeyboardInterrupt ==
    /\ pc \in {"construct_mesh", "construct_mattermost", "run_loop"}
    /\ log' = log \cup {"exiting"}
    /\ pc' = "finally_mesh"
    /\ UNCHANGED <<meshtastic_client, mattermost_client, interface, driver,
                   subscribed, raised, exit_status, linkUp, nodes, pending,
                   last, closeReturned>>
    /\ UNCHANGED <<closeCalls, arrivals, dispatched, lookup, channel>>

\* main's finally clause, first statement, with MeshtasticClient.close():
\* interface.close() returns.  Nothing is unsubscribed.
FinallyMeshClose ==
    /\ pc = "finally_mesh"
    /\ pc' = "finally_mattermost"
    /\ IF meshtastic_client # "None"
       THEN /\ interface' = "closed"
            /\ linkUp' = FALSE
            /\ closeReturned' = TRUE
            /\ closeCalls' = closeCalls \cup {"meshtastic"}
       ELSE UNCHANGED <<interface, linkUp, closeReturned, closeCalls>>
    /\ UNCHANGED <<meshtastic_client, mattermost_client, driver, subscribed,
                   raised, exit_status, nodes, pending, last, log>>
    /\ UNCHANGED <<arrivals, dispatched, lookup, channel>>

\* main's finally clause: interface.close() raises, which ends the clause
FinallyMeshCloseFails ==
    /\ pc = "finally_mesh"
    /\ meshtastic_client # "None"
    /\ closeCalls' = closeCalls \cup {"meshtastic"}
    /\ raised' = "Exception"
    /\ pc' = "exiting"
    /\ UNCHANGED <<meshtastic_client, mattermost_client, interface, driver,
                   subscribed, exit_status, linkUp, nodes, pending, last,
                   closeReturned, log>>
    /\ UNCHANGED <<arrivals, dispatched, lookup, channel>>

\* main's finally clause, second statement, with MattermostClient.close()
FinallyMattermostClose ==
    /\ pc = "finally_mattermost"
    /\ pc' = "exiting"
    /\ IF mattermost_client # "None"
       THEN /\ driver' = "closed"
            /\ closeCalls' = closeCalls \cup {"mattermost"}
       ELSE UNCHANGED <<driver, closeCalls>>
    /\ UNCHANGED <<meshtastic_client, mattermost_client, interface,
                   subscribed, raised, exit_status, linkUp, nodes, pending,
                   last, closeReturned, log>>
    /\ UNCHANGED <<arrivals, dispatched, lookup, channel>>

\* main's finally clause: driver.close() raises
FinallyMattermostCloseFails ==
    /\ pc = "finally_mattermost"
    /\ mattermost_client # "None"
    /\ closeCalls' = closeCalls \cup {"mattermost"}
    /\ raised' = "Exception"
    /\ pc' = "exiting"
    /\ UNCHANGED <<meshtastic_client, mattermost_client, interface, driver,
                   subscribed, exit_status, linkUp, nodes, pending, last,
                   closeReturned, log>>
    /\ UNCHANGED <<arrivals, dispatched, lookup, channel>>

\* main() is left: by return (status 0), or by an exception nothing
\* catches (traceback, status 1)
Exit ==
    /\ pc = "exiting"
    /\ pc' = "exited"
    /\ exit_status' = IF raised = "none" THEN 0 ELSE 1
    /\ UNCHANGED <<meshtastic_client, mattermost_client, interface, driver,
                   subscribed, raised, linkUp, nodes, pending, last,
                   closeReturned, log>>
    /\ UNCHANGED <<closeCalls, arrivals, dispatched, lookup, channel>>

\* The link to the radio drops.  Nothing in the module subscribes to the
\* interface's connection events, so no variable of the program changes.
LinkLoss ==
    /\ pc # "exited"
    /\ interface = "open"
    /\ linkUp
    /\ linkUp' = FALSE
    /\ UNCHANGED <<pc, meshtastic_client, mattermost_client, interface,
                   driver, subscribed, raised, exit_status, nodes, pending,
                   last, closeReturned, log>>
    /\ UNCHANGED <<closeCalls, arrivals, dispatched, lookup, channel>>

\* The interface's thread adds or replaces a node entry
NodeUpdate(id, info) ==
    /\ pc # "exited"
    /\ interface = "open"
    /\ linkUp
    /\ nodes' = [k \in DOMAIN nodes \cup {id} |->
                    IF k = id THEN info ELSE nodes[k]]
    /\ UNCHANGED <<pc, meshtastic_client, mattermost_client, interface,
                   driver, subscribed, raised, exit_status, linkUp, pending,
                   last, closeReturned, log>>
    /\ UNCHANGED <<closeCalls, arrivals, dispatched, lookup, channel>>

\* The interface receives a packet from the radio and publishes it on
\* "meshtastic.receive"
Publish(packet) ==
    /\ pc # "exited"
    /\ interface = "open"
    /\ linkUp
    /\ Len(pending) < MaxPending
    /\ pending' = Append(pending, packet)
    /\ UNCHANGED <<pc, meshtastic_client, mattermost_client, interface,
                   driver, subscribed, raised, exit_status, linkUp, nodes,
                   last, closeReturned, log>>
    /\ UNCHANGED <<closeCalls, arrivals, dispatched, lookup, channel>>

\* What `last` records of a call of the handler
CallRecord(packet, dir, cb, r) ==
    [packet |-> packet, nodes |-> dir, outcome |-> r.outcome,
     calls |-> r.calls,
     callback |-> IF r.calls = <<>> THEN "not_called" ELSE cb,
     afterClose |-> closeReturned, linkUp |-> linkUp]

\* Deliver handing over the newest published packet instead of the oldest
DeliverNewest(cb) ==
    /\ pc # "exited"
    /\ subscribed
    /\ pending # <<>>
    /\ LET packet == pending[Len(pending)]
           r == OnReceive(packet, nodes, cb)
       IN  /\ last' = <<CallRecord(packet, nodes, cb, r)>>
           /\ log' = log \cup r.logs
           /\ dispatched' = IF r.calls # <<>> /\ "id" \in DOMAIN packet
                             THEN Append(dispatched, packet.id)
                             ELSE dispatched
    /\ pending' = SubSeq(pending, 1, Len(pending) - 1)
    /\ UNCHANGED <<pc, meshtastic_client, mattermost_client, interface,
                   driver, subscribed, raised, exit_status, linkUp, nodes,
                   closeReturned>>
    /\ UNCHANGED <<closeCalls, arrivals, lookup, channel>>

\* A published packet reaches the subscriber: _on_receive runs, on the
\* publishing thread, with a callback that behaves as cb
Deliver(cb) ==
    /\ pc # "exited"
    /\ subscribed
    /\ pending # <<>>
    /\ LET packet == Head(pending)
           r == OnReceive(packet, nodes, cb)
       IN  /\ last' = <<CallRecord(packet, nodes, cb, r)>>
           /\ log' = log \cup r.logs
           \* the callback calls for the packets the model has numbered
           /\ dispatched' = IF r.calls # <<>> /\ "id" \in DOMAIN packet
                             THEN Append(dispatched, packet.id)
                             ELSE dispatched
    /\ pending' = Tail(pending)
    /\ UNCHANGED <<pc, meshtastic_client, mattermost_client, interface,
                   driver, subscribed, raised, exit_status, linkUp, nodes,
                   closeReturned>>
    /\ UNCHANGED <<closeCalls, arrivals, lookup, channel>>

\* The inputs the life-cycle specification draws from
SamplePackets ==
    {[decoded |-> [portnum |-> "TEXT_MESSAGE_APP", payload |-> <<72>>],
      fromId |-> "!abc123"],
     [decoded |-> [portnum |-> "TEXT_MESSAGE_APP", payload |-> <<169>>],
      fromId |-> "!abc123"],
     [decoded |-> [portnum |-> "TEXT_MESSAGE_APP"], fromId |-> "!abc123"],
     [decoded |-> [portnum |-> "POSITION_APP", payload |-> <<72>>],
      fromId |-> "!abc123"]}

SampleNodeInfos ==
    {[user |-> [longName |-> <<"a", " ", "a">>, shortName |-> ShortName]],
     [snr |-> "7.0"]}

Next ==
    \/ LoadConfig
    \/ LoadConfigFails
    \/ MeshConnect
    \/ MeshConnectFails
    \/ MattermostInit
    \/ MattermostInitFails
    \/ KeyboardInterrupt
    \/ FinallyMeshClose
    \/ FinallyMeshCloseFails
    \/ FinallyMattermostClose
    \/ FinallyMattermostCloseFails
    \/ Exit
    \/ LinkLoss
    \/ \E id \in NodeIds, info \in SampleNodeInfos : NodeUpdate(id, info)
    \/ \E packet \in SamplePackets : Publish(packet)
    \/ \E cb \in CallbackOutcomes : Deliver(cb)

Spec == Init /\ [][Next]_vars

\* The receive handler alone, as a function of its inputs: the client is
\* connected and running, the directory is any directory, one packet of any
\* shape has been published.
InitHandler ==
    /\ pc = "run_loop"
    /\ meshtastic_client = "client"
    /\ mattermost_client = "client"
    /\ interface = "open"
    /\ driver = "open"
    /\ subscribed = TRUE
    /\ raised = "none"
    /\ exit_status = 0
    /\ linkUp = TRUE
    /\ nodes \in Directories
    /\ pending \in {<<packet>> : packet \in Packets}
    /\ last = <<>>
    /\ closeReturned = FALSE
    /\ log = {"logging_active", "mesh_connected"}
    /\ closeCalls = {}
    /\ arrivals = 0
    /\ dispatched = <<>>
    /\ lookup = [state |-> "idle"]
    /\ channel = [state |-> "idle"]

NextHandler == \E cb \in CallbackOutcomes : Deliver(cb)

SpecHandler == InitHandler /\ [][NextHandler]_vars

\* Publish, with the packet numbered in order of arrival: its "id" is its
\* rank among the packets the interface has received.
PublishNumbered(packet) ==
    /\ pc # "exited"
    /\ interface = "open"
    /\ linkUp
    /\ arrivals < MaxArrivals
    /\ Len(pending) < MaxBacklog
    /\ arrivals' = arrivals + 1
    /\ pending' = Append(pending,
                         [k \in DOMAIN packet \cup {"id"} |->
                             IF k = "id" THEN arrivals + 1 ELSE packet[k]])
    /\ UNCHANGED <<pc, meshtastic_client, mattermost_client, interface,
                   driver, subscribed, raised, exit_status, linkUp, nodes,
                   last, closeReturned, log>>
    /\ UNCHANGED <<closeCalls, dispatched, lookup, channel>>

\* One connection epoch: the client is connected and running, the sender
\* of the sample packets is in the directory or not, nothing is published
\* yet.
InitOrder ==
    /\ pc = "run_loop"
    /\ meshtastic_client = "client"
    /\ mattermost_client = "client"
    /\ interface = "open"
    /\ driver = "open"
    /\ subscribed = TRUE
    /\ raised = "none"
    /\ exit_status = 0
    /\ linkUp = TRUE
    /\ nodes \in {<<>>} \cup [{"!abc123"} -> SampleNodeInfos]
    /\ pending = <<>>
    /\ last = <<>>
    /\ closeReturned = FALSE
    /\ log = {"logging_active", "mesh_connected"}
    /\ closeCalls = {}
    /\ arrivals = 0
    /\ dispatched = <<>>
    /\ lookup = [state |-> "idle"]
    /\ channel = [state |-> "idle"]

NextOrder ==
    \/ \E packet \in SamplePackets : PublishNumbered(packet)
    \/ \E cb \in CallbackOutcomes : Deliver(cb)
    \/ LinkLoss

SpecOrder == InitOrder /\ [][NextOrder]_vars

----------------------------------------------------------------------------
(* _id_to_name a loop step at a time, while the interface's thread         *)
(* refreshes interface.nodes.  The loop iterates the live dict: a dict     *)
(* iterator remembers the size of the dict when it is created, and each    *)
(* step first compares it with the present size and raises RuntimeError    *)
(* ("dictionary changed size during iteration") when they differ.          *)

\* node entries that have a user record with both names
NamedNodeInfos ==
    {[user |-> [longName |-> ln, shortName |-> ShortName]] :
        ln \in {<<"a">>, <<"a", "b">>}}

\* _id_to_name(interface, id) is entered and the for statement creates the
\* iterator of interface.nodes.items()
LookupStart(id) ==
    /\ pc # "exited"
    /\ subscribed
    /\ lookup.state = "idle"
    /\ lookup' = [state |-> "iterating", id |-> id, pre |-> nodes,
                  used |-> Cardinality(DOMAIN nodes), visited |-> {}]
    /\ UNCHANGED <<pc, meshtastic_client, mattermost_client, interface,
                   driver, subscribed, raised, exit_status, linkUp, nodes,
                   pending, last, closeReturned, log>>
    /\ UNCHANGED <<closeCalls, arrivals, dispatched, channel>>

\* how a call of _id_to_name ends
LookupDone(exc, short_name, long_name) ==
    [state |-> "done", id |-> lookup.id, pre |-> lookup.pre, exc |-> exc,
     short_name |-> short_name, long_name |-> long_name]

\* One turn of the for loop: the iterator's next entry (in the dict's
\* insertion order, which is any order here), the comparison, and on a
\* match the three subscripts and the break; or the end of the loop and
\* the return statement.
LookupStep ==
    /\ lookup.state = "iterating"
    /\ IF Cardinality(DOMAIN nodes) # lookup.used
       THEN lookup' = LookupDone("RuntimeError", <<>>, <<>>)
       ELSE IF lookup.visited = DOMAIN nodes
       THEN lookup' = LookupDone("none", <<>>, <<>>)
       ELSE \E node_id \in DOMAIN nodes \ lookup.visited :
              LET node_info == nodes[node_id]
              IN  IF lookup.id # node_id
                  THEN lookup' = [lookup EXCEPT
                                    !.visited = @ \cup {node_id}]
                  ELSE IF "user" \notin DOMAIN node_info
                          \/ "longName" \notin DOMAIN node_info.user
                          \/ "shortName" \notin DOMAIN node_info.user
                       THEN lookup' = LookupDone("KeyError", <<>>, <<>>)
                       ELSE lookup' = LookupDone("none",
                                          node_info.user.shortName,
                                          node_info.user.longName)
    /\ UNCHANGED <<pc, meshtastic_client, mattermost_client, interface,
                   driver, subscribed, raised, exit_status, linkUp, nodes,
                   pending, last, closeReturned, log>>
    /\ UNCHANGED <<closeCalls, arrivals, dispatched, channel>>

\* The client is connected and running; the directory holds any of the
\* named entries.
InitLookup ==
    /\ pc = "run_loop"
    /\ meshtastic_client = "client"
    /\ mattermost_client = "client"
    /\ interface = "open"
    /\ driver = "open"
    /\ subscribed = TRUE
    /\ raised = "none"
    /\ exit_status = 0
    /\ linkUp = TRUE
    /\ nodes \in UNION {[S -> NamedNodeInfos] : S \in SUBSET NodeIds}
    /\ pending = <<>>
    /\ last = <<>>
    /\ closeReturned = FALSE
    /\ log = {"logging_active", "mesh_connected"}
    /\ closeCalls = {}
    /\ arrivals = 0
    /\ dispatched = <<>>
    /\ lookup = [state |-> "idle"]
    /\ channel = [state |-> "idle"]

NextLookup ==
    \/ \E id \in NodeIds : LookupStart(id)
    \/ LookupStep
    \/ \E id \in NodeIds, info \in NamedNodeInfos : NodeUpdate(id, info)

SpecLookup == InitLookup /\ [][NextLookup]_vars

----------------------------------------------------------------------------
(* channels.py: delete_messages_in_channel, once the user, the team and    *)
(* the channel have been found.  The server lists the posts of the channel *)
(* that are not deleted, newest first, a page at a time; a deleted post    *)
(* leaves the list, so the posts after it move up.                         *)

AGE_THRESHOLD_SECONDS == 86400

\* "per_page" of the request
PerPage == 200

\* now_timestamp, int(time.time()) at the call
Now == 100000

\* update_at, in milliseconds, of a post whose age is exactly the threshold
EdgeAt == (Now - AGE_THRESHOLD_SECONDS) * 1000

\* The posts of a channel of n posts, newest first, the first `fresh` of
\* them not older than the threshold: update_at by post number.
UpdateAts(n, fresh) ==
    [id \in 1..n |->
        IF id <= fresh
        THEN IF id % 2 = 1 THEN Now * 1000 - 500 ELSE EdgeAt
        ELSE IF id % 2 = 1 THEN EdgeAt - 1 ELSE 0]

\* int(post_dict["update_at"] / 1000), now_timestamp - update_at_timestamp
\* and the comparison with the threshold
AgeExceeds(update_at) == Now - (update_at \div 1000) > AGE_THRESHOLD_SECONDS

\* get_posts_for_channel(channel_id, {"page": page, "per_page": 200}): the
\* posts of that page of the list
PageOf(posts, page) ==
    {posts[k] : k \in {k \in 1..Len(posts) :
                          k > page * PerPage /\ k <= (page + 1) * PerPage}}

\* One turn of the while loop: the page is fetched; an empty page ends the
\* function; otherwise page_number is incremented and every post of the
\* page whose age exceeds the threshold is deleted.
DeletePage ==
    /\ channel.state = "paging"
    /\ LET page == PageOf(channel.posts, channel.page_number)
           old == {id \in page : AgeExceeds(channel.update_at[id])}
       IN  IF page = {}
           THEN channel' = [channel EXCEPT !.state = "returned"]
           ELSE channel' = [channel EXCEPT
                   !.page_number = @ + 1,
                   !.deleted = @ \cup old,
                   !.posts = SelectSeq(@, LAMBDA id : id \notin old)]
    /\ UNCHANGED <<pc, meshtastic_client, mattermost_client, interface,
                   driver, subscribed, raised, exit_status, linkUp, nodes,
                   pending, last, closeReturned, log>>
    /\ UNCHANGED <<closeCalls, arrivals, dispatched, lookup>>

\* delete_messages_in_channel has found the channel, of any number of
\* posts, and set page_number to 0.  The mesh client is not running.
InitChannel ==
    /\ pc = "load_config"
    /\ meshtastic_client = "None"
    /\ mattermost_client = "None"
    /\ interface = "None"
    /\ driver = "None"
    /\ subscribed = FALSE
    /\ raised = "none"
    /\ exit_status = 0
    /\ linkUp = FALSE
    /\ nodes = <<>>
    /\ pending = <<>>
    /\ last = <<>>
    /\ closeReturned = FALSE
    /\ log = {}
    /\ closeCalls = {}
    /\ arrivals = 0
    /\ dispatched = <<>>
    /\ lookup = [state |-> "idle"]
    /\ \E n \in 0..MaxPosts :
       \E fresh \in {f \in (0..MaxFresh) \cup {PerPage, n} : f <= n} :
          channel = [state |-> "paging", page_number |-> 0,
                     posts |-> [k \in 1..n |-> k],
                     update_at |-> UpdateAts(n, fresh), deleted |-> {}]

NextChannel == DeletePage

SpecChannel == InitChannel /\ [][NextChannel]_vars

----------------------------------------------------------------------------
(* What the claims are stated with.  UTF-8 validity and the first word of  *)
(* a name are defined here on their own, not by the operators above.       *)

\* the UTF-8 encoding of one code point
Utf8EncodeChar(cp) ==
    IF cp < 128 THEN <<cp>>
    ELSE IF cp < 2048 THEN <<192 + (cp \div 64), 128 + (cp % 64)>>
    ELSE IF cp < 65536
    THEN <<224 + (cp \div 4096), 128 + ((cp \div 64) % 64), 128 + (cp % 64)>>
    ELSE <<240 + (cp \div 262144), 128 + ((cp \div 4096) % 64),
           128 + ((cp \div 64) % 64), 128 + (cp % 64)>>

RECURSIVE Utf8Encode(_)
Utf8Encode(cps) ==
    IF cps = <<>> THEN <<>>
    ELSE Utf8EncodeChar(Head(cps)) \o Utf8Encode(Tail(cps))

\* The code points whose encoding uses the bytes of PayloadBytes only.
\* PayloadBytes holds no lead byte of a three- or four-byte form, so they
\* all lie below 2048.
CodePoints ==
    {cp \in 0..2047 :
        \A i \in 1..Len(Utf8EncodeChar(cp)) :
            Utf8EncodeChar(cp)[i] \in PayloadBytes}

\* the texts whose UTF-8 encoding is bs
TextsOf(bs) ==
    {cps \in UNION {[1..n -> CodePoints] : n \in 0..Len(bs)} :
        Utf8Encode(cps) = bs}

\* the first whitespace-delimited word of name: a set of at most one word
FirstWords(name) ==
    {SubSeq(name, w[1], w[2]) :
        w \in {v \in (1..Len(name)) \X (1..Len(name)) :
                 /\ v[1] <= v[2]
                 /\ \A k \in 1..(v[1] - 1) : name[k] = " "
                 /\ \A k \in v[1]..v[2] : name[k] # " "
                 /\ v[2] = Len(name) \/ name[v[2] + 1] = " "}}

\* the handler has run
Called == last # <<>>

\* the call `last` records handled a text-application packet that carries
\* a payload
TextWithPayload ==
    /\ Called
    /\ "decoded" \in DOMAIN last[1].packet
    /\ "portnum" \in DOMAIN last[1].packet.decoded
    /\ last[1].packet.decoded.portnum = "TEXT_MESSAGE_APP"
    /\ "payload" \in DOMAIN last[1].packet.decoded

\* ... whose payload is valid UTF-8 and which names its sender
ValidTextFromSender ==
    /\ TextWithPayload
    /\ TextsOf(last[1].packet.decoded.payload) # {}
    /\ "fromId" \in DOMAIN last[1].packet

\* C1: whatever the shape of the packet, the receive handler returns
\* normally (the callback itself not failing): no exception leaves it.
C1_HandlerNeverRaises ==
    (Called /\ last[1].callback \in {"not_called", "returns"})
        => last[1].outcome = "returned"

\* C2: a validly decoded text packet whose sender is absent from the node
\* directory is still forwarded: the callback is called exactly once, with
\* the text unchanged, and nothing is raised.
C2_UnknownSenderForwarded ==
    (ValidTextFromSender /\ last[1].packet.fromId \notin DOMAIN last[1].nodes)
        => /\ Len(last[1].calls) = 1
           /\ last[1].calls[1].text
                  \in TextsOf(last[1].packet.decoded.payload)
           /\ last[1].callback = "returns" => last[1].outcome = "returned"

\* C3: a failure raised by the relay callback is caught at the dispatch
\* boundary and does not leave the receive handler.
C3_CallbackFailureContained ==
    (Called /\ last[1].callback \in {"raises", "raises_UnicodeDecodeError"})
        => last[1].outcome = "returned"

\* C4: after a link loss while connected, the client attempts to reconnect:
\* a connection attempt is possible while main is in its run loop with the
\* link down.
C4_ReconnectAfterLinkLoss ==
    (pc = "run_loop" /\ interface = "open" /\ ~linkUp)
        => ENABLED (MeshConnect \/ MeshConnectFails)

\* C5: once close() has returned, the device connection is released, the
\* receive subscription is removed, and the handler is never called again.
C5_NoCallbackAfterClose ==
    closeReturned
        => /\ interface = "closed"
           /\ ~subscribed
           /\ Called => ~last[1].afterClose

\* main went past the construction of the mesh client without one and
\* without an interrupt
MeshConstructionFailed ==
    /\ "logging_active" \in log
    /\ pc # "construct_mesh"
    /\ meshtastic_client = "None"
    /\ "exiting" \notin log

\* C6: failing to establish the initial mesh connection is fatal: the
\* constructor logs the error and raises it again, no subscription is
\* registered, main never reaches its run loop and never retries, and the
\* process ends with status 1.
C6_InitialConnectFailureFatal ==
    /\ MeshConstructionFailed => "mesh_connect_error" \in log
    /\ "mesh_connect_error" \in log
         => /\ raised = "Exception"
            /\ ~subscribed
            /\ interface = "None"
            /\ meshtastic_client = "None"
            /\ pc \in {"finally_mesh", "finally_mattermost", "exiting",
                       "exited"}
            /\ pc = "exited" => exit_status = 1

\* C6 witness: the process has ended after a failed initial connection
C6_Witness ==
    /\ pc = "exited"
    /\ "mesh_connect_error" \in log
    /\ exit_status = 1

\* the packet of the last call is not a text-application packet
NotTextPacket ==
    /\ Called
    /\ \/ "decoded" \notin DOMAIN last[1].packet
       \/ "portnum" \notin DOMAIN last[1].packet.decoded
       \/ last[1].packet.decoded.portnum # "TEXT_MESSAGE_APP"

\* C7: a packet that is not a text-application packet yields nothing and
\* the callback is not called for it; every callback call is for a text
\* packet whose payload is valid UTF-8.
C7_NonTextNeverDispatched ==
    /\ NotTextPacket
         => /\ last[1].outcome = "returned"
            /\ last[1].calls = <<>>
    /\ (Called /\ last[1].calls # <<>>)
         => /\ TextWithPayload
            /\ TextsOf(last[1].packet.decoded.payload) # {}

\* C7 witness: a position packet, with a payload that is valid text and a
\* sender the directory knows by name, has been handled
C7_Witness ==
    /\ NotTextPacket
    /\ "decoded" \in DOMAIN last[1].packet
    /\ "portnum" \in DOMAIN last[1].packet.decoded
    /\ last[1].packet.decoded.portnum = "POSITION_APP"
    /\ "fromId" \in DOMAIN last[1].packet
    /\ last[1].packet.fromId \in DOMAIN last[1].nodes
    /\ "user" \in DOMAIN last[1].nodes[last[1].packet.fromId]
    /\ last[1].nodes[last[1].packet.fromId].user
           = [longName |-> <<"a">>, shortName |-> ShortName]
    /\ last[1].outcome = "returned"

\* C8: a text packet whose payload is not valid UTF-8 raises nothing,
\* yields no message and no callback call; the handler logs it and returns.
C8_InvalidUtf8Skipped ==
    (TextWithPayload /\ TextsOf(last[1].packet.decoded.payload) = {})
        => /\ last[1].outcome = "returned"
           /\ last[1].calls = <<>>
           /\ "non_utf8" \in log

\* C8 witness: a text packet with a lone continuation byte has been handled
C8_Witness ==
    /\ TextWithPayload
    /\ last[1].packet.decoded.payload = <<72, 169>>
    /\ last[1].outcome = "returned"

\* the sender of the last call has an entry with both names, whose long
\* name has a word
SenderNamed ==
    /\ ValidTextFromSender
    /\ last[1].packet.fromId \in DOMAIN last[1].nodes
    /\ LET info == last[1].nodes[last[1].packet.fromId]
       IN  /\ "user" \in DOMAIN info
           /\ "longName" \in DOMAIN info.user
           /\ "shortName" \in DOMAIN info.user
           /\ \E k \in 1..Len(info.user.longName) :
                  info.user.longName[k] # " "

\* C9: for a validly decoded text packet whose sender is in the directory,
\* the callsign passed to the callback is the upper-cased first word of the
\* sender's long name and the text passed is the decoded payload; a sender
\* whose entry has its names and a word in the long name gets exactly one
\* call.
C9_CallsignIsFirstWordUpper ==
    /\ SenderNamed => Len(last[1].calls) = 1
    /\ (ValidTextFromSender
        /\ last[1].packet.fromId \in DOMAIN last[1].nodes)
         => \A i \in 1..Len(last[1].calls) :
              LET info == last[1].nodes[last[1].packet.fromId]
                  call == last[1].calls[i]
              IN  /\ "user" \in DOMAIN info
                  /\ "longName" \in DOMAIN info.user
                  /\ \E tok \in FirstWords(info.user.longName) :
                       call.callsign = Upper(tok)
                  /\ Utf8Encode(call.text) = last[1].packet.decoded.payload

\* C9 witness: long name "ab e", payload C3 A9, dispatched as ("AB", U+00E9)
C9_Witness ==
    /\ SenderNamed
    /\ last[1].nodes[last[1].packet.fromId].user.longName
           = <<"a", "b", " ", "e">>
    /\ last[1].packet.decoded.payload = <<195, 169>>
    /\ last[1].calls = <<[callsign |-> <<"A", "B">>, text |-> <<233>>]>>

\* C10: resolving the sender never raises, whatever the directory holds:
\* a call that reaches the lookup is not left by a KeyError or IndexError.
C10_ResolveNeverRaises ==
    ValidTextFromSender => last[1].outcome \notin {"KeyError", "IndexError"}

\* The connection state the client's fields amount to.  The client keeps
\* nothing about the link: it is connected from the moment it holds an
\* interface, and connecting only while TCPInterface is being constructed.
ConnectionState ==
    IF interface = "open" THEN "Connected"
    ELSE IF pc = "construct_mesh" THEN "Connecting"
    ELSE IF pc = "finally_mesh" THEN "Closing"
    ELSE "Disconnected"

\* C11: once the link is lost the connection state is Connecting, and the
\* callback is called only while the connection is up.
C11_DispatchOnlyWhileConnected ==
    /\ (interface = "open" /\ ~linkUp) => ConnectionState = "Connecting"
    /\ (Called /\ last[1].calls # <<>>) => last[1].linkUp

\* C13: when an interrupt ends main, close() has been called on every
\* client that was constructed before the process ends, whatever the other
\* client's close() did.
C13_BothClosedOnInterrupt ==
    (pc = "exited" /\ "exiting" \in log)
        => /\ meshtastic_client # "None" => "meshtastic" \in closeCalls
           /\ mattermost_client # "None" => "mattermost" \in closeCalls

\* C12: within a connection epoch the callback calls follow the order of
\* arrival: of two forwarded packets, the one that arrived first is passed
\* to the callback first.
C12_DispatchInArrivalOrder ==
    \A i \in 1..Len(dispatched), j \in 1..Len(dispatched) :
        i < j => dispatched[i] < dispatched[j]

\* C12 witness: the first and the third packet have been forwarded, in that
\* order, the second one was not forwarded
C12_Witness == dispatched = <<1, 3>> /\ pending = <<>>

\* what _id_to_name returns for id in directory dir, both taken whole
NameIn(dir, id) ==
    IF id \in DOMAIN dir
    THEN <<dir[id].user.shortName, dir[id].user.longName>>
    ELSE <<<<>>, <<>>>>

\* C14: a lookup that runs while the interface's thread adds or updates
\* node entries completes without error and returns the identity that the
\* directory held when the lookup began or holds when it ends.
C14_LookupSafeUnderRefresh ==
    lookup.state = "done"
        => /\ lookup.exc = "none"
           /\ <<lookup.short_name, lookup.long_name>>
                  \in {NameIn(lookup.pre, lookup.id), NameIn(nodes, lookup.id)}

\* the age of a post at the call, in milliseconds, exceeds the threshold
OverAge(update_at) == Now * 1000 - update_at > AGE_THRESHOLD_SECONDS * 1000

\* C15: when delete_messages_in_channel returns, no post whose age exceeded
\* the threshold remains in the channel, and no other post was deleted.
C15_AllOldPostsDeleted ==
    channel.state = "returned"
        => /\ \A k \in 1..Len(channel.posts) :
                  ~OverAge(channel.update_at[channel.posts[k]])
           /\ \A id \in channel.deleted : OverAge(channel.update_at[id])

====
